---- MODULE Spec2Model ----
(***************************************************************************)
(* A model of sentry_nodestore_elastic/backend.py: ElasticNodeStorage, the *)
(* Sentry nodestore backend that keeps compressed node payloads in daily   *)
(* Elasticsearch indices behind one alias.                                 *)
(*                                                                         *)
(* Strings the code inspects (index names, the stored payload text) are    *)
(* sequences of one-character strings, byte strings are sequences of       *)
(* numbers 0..255, and points in time are half-day counts.                 *)
(***************************************************************************)
EXTENDS Integers, Sequences, FiniteSets, TLC

\* ------------------------------------------------------------------ bounds

\* The process clock runs over the days 2024-01-01 .. 2024-01-MaxDay.
MaxDay == 2

\* Payloads handed to set are byte strings of at most MaxLen bytes.
MaxLen == 1

\* Public calls and operator interventions made in one behaviour.
MaxCalls == 3

\* Store requests of one call that fail for a reason of the store's own.
MaxFaults == 1

\* Byte strings handed to the payload encoding alone have at most
\* MaxCodecLen bytes.
MaxCodecLen == 2

\* ------------------------------------------------------- payload encoding

\* The bits of a Huffman code of n bits, most significant bit first.
BitsMSB(code, n) == [i \in 1..n |-> (code \div (2 ^ (n - i))) % 2]

\* zlib's fixed Huffman code of one literal byte (RFC 1951, 3.2.6).
LitBits(b) == IF b <= 143 THEN BitsMSB(48 + b, 8) ELSE BitsMSB(400 + (b - 144), 9)

RECURSIVE DeflateLits(_)
DeflateLits(data) ==
    IF data = <<>> THEN <<>> ELSE LitBits(Head(data)) \o DeflateLits(Tail(data))

PadBits(bits) == bits \o [i \in 1..((8 - (Len(bits) % 8)) % 8) |-> 0]

\* Bits are packed into bytes starting at the least significant bit.
PackLSB(bits) ==
    [k \in 1..(Len(bits) \div 8) |->
        bits[8 * k - 7] + 2 * bits[8 * k - 6] + 4 * bits[8 * k - 5]
        + 8 * bits[8 * k - 4] + 16 * bits[8 * k - 3] + 32 * bits[8 * k - 2]
        + 64 * bits[8 * k - 1] + 128 * bits[8 * k]]

UnpackLSB(bytes) ==
    [i \in 1..(8 * Len(bytes)) |-> (bytes[(i + 7) \div 8] \div (2 ^ ((i - 1) % 8))) % 2]

RECURSIVE AdlerFrom(_, _, _)
AdlerFrom(data, a, b) ==
    IF data = <<>> THEN <<b \div 256, b % 256, a \div 256, a % 256>>
    ELSE AdlerFrom(Tail(data), (a + Head(data)) % 65521,
                   (b + ((a + Head(data)) % 65521)) % 65521)

\* The Adler-32 checksum, as the four bytes that end a zlib stream.
Adler32(data) == AdlerFrom(data, 1, 0)

\* zlib.compress(data): for the short payloads of the model the compressor
\* emits a single final block of fixed-Huffman literals (no back references
\* exist in fewer than three bytes), between the header 78 9c and Adler-32.
ZlibCompress(data) ==
    <<120, 156>>
    \o PackLSB(PadBits(<<1, 1, 0>> \o DeflateLits(data) \o <<0, 0, 0, 0, 0, 0, 0>>))
    \o Adler32(data)

ZlibError == [ok |-> FALSE, data |-> <<>>]

BitsVal(bits, pos, n) ==
    LET RECURSIVE V(_, _)
        V(i, acc) == IF i = n THEN acc ELSE V(i + 1, 2 * acc + bits[pos + i])
    IN V(0, 0)

\* Inflate the literals of one fixed-Huffman block starting at bit pos;
\* answers the output and the bit position after the end-of-block code.
RECURSIVE InflateLits(_, _, _)
InflateLits(bits, pos, out) ==
    IF pos + 6 > Len(bits) THEN [ok |-> FALSE, data |-> <<>>, pos |-> pos]
    ELSE LET v7 == BitsVal(bits, pos, 7) IN
         IF v7 = 0 THEN [ok |-> TRUE, data |-> out, pos |-> pos + 7]
         ELSE IF v7 <= 23 THEN [ok |-> FALSE, data |-> <<>>, pos |-> pos]
         ELSE IF pos + 7 > Len(bits) THEN [ok |-> FALSE, data |-> <<>>, pos |-> pos]
         ELSE LET v8 == BitsVal(bits, pos, 8) IN
              IF v8 >= 48 /\ v8 <= 191
              THEN InflateLits(bits, pos + 8, Append(out, v8 - 48))
              ELSE IF v8 >= 192 /\ v8 <= 199
              THEN [ok |-> FALSE, data |-> <<>>, pos |-> pos]
              ELSE IF pos + 8 > Len(bits)
              THEN [ok |-> FALSE, data |-> <<>>, pos |-> pos]
              ELSE InflateLits(bits, pos + 9,
                               Append(out, BitsVal(bits, pos, 9) - 400 + 144))

\* The blocks of a deflate stream, from bit pos on.
RECURSIVE InflateBlocks(_, _, _)
InflateBlocks(bits, pos, out) ==
    IF pos + 2 > Len(bits) THEN [ok |-> FALSE, data |-> <<>>, pos |-> pos]
    ELSE IF ~(bits[pos + 1] = 1 /\ bits[pos + 2] = 0)
    THEN [ok |-> FALSE, data |-> <<>>, pos |-> pos]
    ELSE LET blk == InflateLits(bits, pos + 3, out) IN
         IF ~blk.ok \/ bits[pos] = 1 THEN blk
         ELSE InflateBlocks(bits, blk.pos, blk.data)

\* zlib.decompress(bytes): header check, inflate, Adler-32 check; bytes after
\* the checksum are ignored. Streams with back references, stored blocks or
\* dynamic codes are outside the payloads of the model and answer an error.
ZlibDecompress(bytes) ==
    IF Len(bytes) < 2 THEN ZlibError
    ELSE IF bytes[1] % 16 # 8 \/ bytes[1] \div 16 > 7
            \/ (256 * bytes[1] + bytes[2]) % 31 # 0 \/ (bytes[2] \div 32) % 2 = 1
    THEN ZlibError
    ELSE LET body == SubSeq(bytes, 3, Len(bytes))
             r == InflateBlocks(UnpackLSB(body), 1, <<>>)
             used == (r.pos + 6) \div 8
         IN IF ~r.ok THEN ZlibError
            ELSE IF Len(body) < used + 4 THEN ZlibError
            ELSE IF SubSeq(body, used + 1, used + 4) # Adler32(r.data) THEN ZlibError
            ELSE [ok |-> TRUE, data |-> r.data]

B64Alphabet ==
    <<"A", "B", "C", "D", "E", "F", "G", "H", "I", "J", "K", "L", "M",
      "N", "O", "P", "Q", "R", "S", "T", "U", "V", "W", "X", "Y", "Z",
      "a", "b", "c", "d", "e", "f", "g", "h", "i", "j", "k", "l", "m",
      "n", "o", "p", "q", "r", "s", "t", "u", "v", "w", "x", "y", "z",
      "0", "1", "2", "3", "4", "5", "6", "7", "8", "9", "+", "/">>

B64Char(v) == B64Alphabet[v + 1]

\* The value of a base64 character, 64 for a character outside the alphabet.
B64Val(c) ==
    IF \E i \in 1..64 : B64Alphabet[i] = c
    THEN (CHOOSE i \in 1..64 : B64Alphabet[i] = c) - 1
    ELSE 64

\* base64.b64encode(bytes).decode('utf-8')
RECURSIVE B64Encode(_)
B64Encode(bytes) ==
    IF bytes = <<>> THEN <<>>
    ELSE IF Len(bytes) = 1
    THEN <<B64Char(bytes[1] \div 4), B64Char((bytes[1] % 4) * 16), "=", "=">>
    ELSE IF Len(bytes) = 2
    THEN <<B64Char(bytes[1] \div 4),
           B64Char((bytes[1] % 4) * 16 + bytes[2] \div 16),
           B64Char((bytes[2] % 16) * 4), "=">>
    ELSE <<B64Char(bytes[1] \div 4),
           B64Char((bytes[1] % 4) * 16 + bytes[2] \div 16),
           B64Char((bytes[2] % 16) * 4 + bytes[3] \div 64),
           B64Char(bytes[3] % 64)>>
         \o B64Encode(SubSeq(bytes, 4, Len(bytes)))

\* base64.b64decode(text) in its default, non-validating mode: characters
\* outside the alphabet are skipped, a complete run of padding ends the
\* input, and an incomplete last group is an error (binascii.Error).
RECURSIVE B64DecodeFrom(_, _, _, _, _, _)
B64DecodeFrom(text, i, quad, pads, left, out) ==
    IF i > Len(text)
    THEN IF quad # 0 THEN [ok |-> FALSE, data |-> <<>>] ELSE [ok |-> TRUE, data |-> out]
    ELSE IF text[i] = "="
    THEN IF quad >= 2 /\ quad + pads + 1 >= 4
         THEN [ok |-> TRUE, data |-> out]
         ELSE B64DecodeFrom(text, i + 1, quad, IF quad >= 2 THEN pads + 1 ELSE pads,
                            left, out)
    ELSE LET v == B64Val(text[i]) IN
         IF v = 64 THEN B64DecodeFrom(text, i + 1, quad, pads, left, out)
         ELSE IF quad = 0 THEN B64DecodeFrom(text, i + 1, 1, 0, v, out)
         ELSE IF quad = 1
         THEN B64DecodeFrom(text, i + 1, 2, 0, v % 16,
                            Append(out, left * 4 + v \div 16))
         ELSE IF quad = 2
         THEN B64DecodeFrom(text, i + 1, 3, 0, v % 4,
                            Append(out, left * 16 + v \div 4))
         ELSE B64DecodeFrom(text, i + 1, 0, 0, 0, Append(out, left * 64 + v))

B64Decode(text) == B64DecodeFrom(text, 1, 0, 0, 0, <<>>)

\* An encoding that leaves out the compression: base64 of the bytes as given.
CompressRaw(data) == B64Encode(data)

\* ElasticNodeStorage._compress
_compress(data) == B64Encode(ZlibCompress(data))

\* ElasticNodeStorage._decompress: ok with the bytes, or ~ok for the
\* ValueError it raises on text that does not decode or decompress.
_decompress(text) ==
    LET raw == B64Decode(text) IN
    IF ~raw.ok THEN [ok |-> FALSE, data |-> <<>>] ELSE ZlibDecompress(raw.data)

\* ---------------------------------------------------------- names and dates

DigitChars == <<"0", "1", "2", "3", "4", "5", "6", "7", "8", "9">>

IsDigit(c) == \E i \in 1..10 : DigitChars[i] = c

DigitVal(c) == (CHOOSE i \in 1..10 : DigitChars[i] = c) - 1

\* A number as a zero-padded decimal of the given width (%Y, %m, %d).
RECURSIVE Decimal(_, _)
Decimal(n, width) ==
    IF width = 0 THEN <<>>
    ELSE Append(Decimal(n \div 10, width - 1), DigitChars[(n % 10) + 1])

RECURSIVE DecimalVal(_)
DecimalVal(s) ==
    IF s = <<>> THEN 0
    ELSE 10 * DecimalVal(SubSeq(s, 1, Len(s) - 1)) + DigitVal(s[Len(s)])

\* A point in time, counted in half days in an order that agrees with the
\* calendar: midnight of a date is half 0, its noon half 1.
TimeOf(year, month, day, half) == (((year * 12 + (month - 1)) * 31 + (day - 1)) * 2) + half

IsLeap(y) == (y % 4 = 0 /\ y % 100 # 0) \/ y % 400 = 0

DaysIn(y, m) ==
    IF m = 2 THEN (IF IsLeap(y) THEN 29 ELSE 28)
    ELSE IF m \in {4, 6, 9, 11} THEN 30 ELSE 31

\* The process clock is read at noon of a day of January 2024: now is the
\* day of the month.
ClockYear == 2024
ClockMonth == 1
ClockTime(day) == TimeOf(ClockYear, ClockMonth, day, 1)

\* datetime.now(timezone.utc).strftime('%Y-%m-%d')
StrfDate(day) ==
    Decimal(ClockYear, 4) \o <<"-">> \o Decimal(ClockMonth, 2) \o <<"-">>
    \o Decimal(day, 2)

\* str.format(date=...): every {date} placeholder of the pattern is replaced.
RECURSIVE FormatDate(_, _)
FormatDate(pattern, date) ==
    IF pattern = <<>> THEN <<>>
    ELSE (IF Head(pattern) = "{date}" THEN date ELSE <<Head(pattern)>>)
         \o FormatDate(Tail(pattern), date)

SentryDash == <<"s", "e", "n", "t", "r", "y", "-">>

\* INDEX_DATE_PATTERN = re.compile(r'^sentry-(\d{4}-\d{2}-\d{2})'), applied
\* with match(): the captured group, or <<>> when the name does not match.
INDEX_DATE_PATTERN_match(name) ==
    IF /\ Len(name) >= 17
       /\ SubSeq(name, 1, 7) = SentryDash
       /\ \A i \in {8, 9, 10, 11, 13, 14, 16, 17} : IsDigit(name[i])
       /\ name[12] = "-"
       /\ name[15] = "-"
    THEN SubSeq(name, 8, 17)
    ELSE <<>>

\* datetime.strptime(text, "%Y-%m-%d").replace(tzinfo=timezone.utc) on a
\* captured group: midnight UTC of the date, or ~ok for its ValueError.
Strptime(text) ==
    LET y == DecimalVal(SubSeq(text, 1, 4))
        m == DecimalVal(SubSeq(text, 6, 7))
        d == DecimalVal(SubSeq(text, 9, 10))
    IN IF y >= 1 /\ m >= 1 /\ m <= 12 /\ d >= 1 /\ d <= DaysIn(y, m)
       THEN [ok |-> TRUE, time |-> TimeOf(y, m, d, 0)]
       ELSE [ok |-> FALSE, time |-> 0]

\* ------------------------------------------------------------ the store

\* alias_name and template_name, at their defaults.
alias_name == <<"s", "e", "n", "t", "r", "y">>

\* The index option: the default and one with another prefix.
DefaultIndex == SentryDash \o <<"{date}">>
OtherIndex == <<"n", "o", "d", "e", "s", "-", "{date}">>
IndexOptions == {DefaultIndex, OtherIndex}

\* Caller-chosen identifiers; the empty string is the empty id.
Ids == {"k1", "k2"}
EmptyId == ""

ByteVals == {255}
Payloads == UNION {[1..n -> ByteVals] : n \in 0..MaxLen}

\* What one store request can answer besides its regular result: a transport
\* failure (connection error, timeout, 5xx) or a 400 request error.
Faults == {"none", "transport", "request"}

NoIndex == <<>>
EmptyMap == [x \in {} |-> 0]
Put(f, k, v) == [x \in (DOMAIN f) \cup {k} |-> IF x = k THEN v ELSE f[x]]
Drop(f, K) == [x \in (DOMAIN f) \ K |-> f[x]]

VARIABLES
    cfg,       \* the options given to __init__: index, refresh
    now,       \* the process clock: the day of the month
    template,  \* the index template named template_name
    indices,   \* name -> [docs, seen, aliased]: the indices of the cluster
    last,      \* the last public call: its arguments, requests and outcome
    calls,     \* public calls and operator interventions made so far
    pend       \* caller -> the call it is inside of, between two requests

vars == <<cfg, now, template, indices, last, calls, pend>>

\* docs is what the index holds (a get by id reads it), seen what its last
\* refresh made searchable: "cur" when the searchable copy is the held one,
\* "old" when the document was written or deleted since.
AliasMembers(ix) == {n \in DOMAIN ix : ix[n].aliased}

Holders(ix, id) == {n \in DOMAIN ix : id \in DOMAIN ix[n].docs}

Refreshed(rec) == [rec EXCEPT !.seen = [x \in DOMAIN rec.docs |-> "cur"]]

Stale(seen, id) == IF id \in DOMAIN seen THEN [seen EXCEPT ![id] = "old"] ELSE seen

NoTemplate == [exists |-> FALSE, index_patterns |-> <<>>, number_of_replicas |-> 0,
               alias |-> <<>>]

\* A trailing-star pattern such as sentry-* matches the names it prefixes.
GlobMatch(pattern, name) ==
    /\ pattern # <<>>
    /\ pattern[Len(pattern)] = "*"
    /\ Len(name) >= Len(pattern) - 1
    /\ SubSeq(name, 1, Len(pattern) - 1) = SubSeq(pattern, 1, Len(pattern) - 1)

\* An index created by its first write takes the alias of a matching template.
NewIndex(tpl, name) ==
    [docs |-> EmptyMap, seen |-> EmptyMap,
     aliased |-> tpl.exists /\ GlobMatch(tpl.index_patterns, name)
                 /\ tpl.alias = alias_name]

Resp(status) == [status |-> status, index |-> NoIndex, data |-> <<>>, total |-> 0]

\* The indices a request's index argument names: an index, or the alias.
Resolve(ix, target) ==
    IF target \in DOMAIN ix THEN {target}
    ELSE IF target = alias_name THEN AliasMembers(ix) ELSE {}

\* es.get(id=, index=): 404 when nothing is behind the name or the document
\* is not held, 400 when an alias names more than one index.
EsGet(ix, target, id, fault) ==
    LET r == Resolve(ix, target) IN
    IF fault # "none" THEN Resp(fault)
    ELSE IF r = {} THEN Resp("not_found")
    ELSE IF Cardinality(r) > 1 THEN Resp("request")
    ELSE LET n == CHOOSE x \in r : TRUE IN
         IF id \in DOMAIN ix[n].docs
         THEN [Resp("ok") EXCEPT !.index = n, !.data = ix[n].docs[id].data]
         ELSE Resp("not_found")

\* es.search(index=alias, term _id): the searchable copies behind the alias.
EsSearch(ix, id, fault) ==
    LET hits == {n \in AliasMembers(ix) : id \in DOMAIN ix[n].seen} IN
    IF fault # "none" THEN Resp(fault)
    ELSE IF AliasMembers(ix) = {} THEN Resp("not_found")
    ELSE [Resp("ok") EXCEPT !.total = Cardinality(hits),
                            !.index = IF hits = {} THEN NoIndex
                                      ELSE CHOOSE n \in hits : TRUE]

\* es.index(id=, index=, document=, refresh=)
EsIndex(ix, tpl, name, id, doc, refr, fault) ==
    IF fault # "none" THEN [status |-> fault, indices |-> ix]
    ELSE LET base == IF name \in DOMAIN ix THEN ix[name] ELSE NewIndex(tpl, name)
             written == [base EXCEPT !.docs = Put(base.docs, id, doc),
                                     !.seen = Stale(base.seen, id)]
         IN [status |-> "ok",
             indices |-> Put(ix, name, IF refr THEN Refreshed(written) ELSE written)]

\* A delete request that empties the index it is sent to.
EsDeleteEmptying(ix, name, id, refr, fault) ==
    IF fault # "none" THEN [status |-> fault, indices |-> ix]
    ELSE IF name \notin DOMAIN ix \/ id \notin DOMAIN ix[name].docs
    THEN [status |-> "not_found", indices |-> ix]
    ELSE [status |-> "ok",
          indices |-> [ix EXCEPT ![name] = [@ EXCEPT !.docs = EmptyMap,
                                                     !.seen = EmptyMap]]]

\* es.delete(id=, index=, refresh=)
EsDelete(ix, name, id, refr, fault) ==
    IF fault # "none" THEN [status |-> fault, indices |-> ix]
    ELSE IF name \notin DOMAIN ix \/ id \notin DOMAIN ix[name].docs
    THEN [status |-> "not_found", indices |-> ix]
    ELSE LET gone == [ix[name] EXCEPT !.docs = Drop(ix[name].docs, {id}),
                                      !.seen = Stale(ix[name].seen, id)]
         IN [status |-> "ok",
             indices |-> [ix EXCEPT ![name] = IF refr THEN Refreshed(gone) ELSE gone]]

\* es.delete_by_query(index=alias, ids, refresh=): the searchable copies of
\* the ids are deleted by version; a copy that is no longer the held one is a
\* version conflict, which aborts the request with 409 after the other
\* deletions of the batch were made.
EsDeleteByQuery(ix, ids, refr, fault) ==
    LET members == AliasMembers(ix)
        conflict == \E n \in members : \E id \in ids :
                        id \in DOMAIN ix[n].seen /\ ix[n].seen[id] = "old"
        Hit(n) == {id \in ids : id \in DOMAIN ix[n].seen /\ ix[n].seen[id] = "cur"}
        Swept(n) ==
            LET gone == [ix[n] EXCEPT
                            !.docs = Drop(ix[n].docs, Hit(n)),
                            !.seen = [x \in DOMAIN ix[n].seen |->
                                         IF x \in Hit(n) THEN "old" ELSE ix[n].seen[x]]]
            IN IF refr /\ ~conflict /\ Hit(n) # {} THEN Refreshed(gone) ELSE gone
    IN IF fault # "none" THEN [status |-> fault, indices |-> ix]
       ELSE IF members = {} THEN [status |-> "not_found", indices |-> ix]
       ELSE [status |-> IF conflict THEN "conflict" ELSE "ok",
             indices |-> [n \in DOMAIN ix |-> IF n \in members THEN Swept(n) ELSE ix[n]]]

\* es.indices.get_alias(index=alias)
EsGetAlias(ix, fault) ==
    IF fault # "none" THEN [status |-> fault, names |-> {}]
    ELSE IF AliasMembers(ix) = {} THEN [status |-> "not_found", names |-> {}]
    ELSE [status |-> "ok", names |-> AliasMembers(ix)]

\* es.indices.get_index_template(name=)
EsGetIndexTemplate(tpl, fault) ==
    IF fault # "none" THEN fault ELSE IF tpl.exists THEN "ok" ELSE "not_found"

\* es.indices.put_index_template(create=True, ...): 400 when the name is taken.
EsPutIndexTemplate(tpl, new, fault) ==
    IF fault # "none" THEN [status |-> fault, template |-> tpl]
    ELSE IF tpl.exists THEN [status |-> "request", template |-> tpl]
    ELSE [status |-> "ok", template |-> new]

\* One request of a call: the api, the answer, and the answer injected as a
\* failure of the store's own ("none" when the store answered by its state).
Req(api, status, fault) == [api |-> api, status |-> status, fault |-> fault]

\* ------------------------------------------------------------ the backend

Range(seq) == {seq[i] : i \in 1..Len(seq)}

NoCall ==
    [op |-> "none", id |-> EmptyId, id_list |-> <<>>, data |-> <<>>, cutoff |-> 0,
     absent |-> TRUE, value |-> <<>>, err |-> "none", reqs |-> <<>>,
     index |-> NoIndex, attempted |-> {}, deleted |-> {}, skipped |-> 0, checked |-> 0]

\* The template bootstrap creates: index_patterns sentry-*, the alias bound.
BootstrapTemplate ==
    [exists |-> TRUE, index_patterns |-> SentryDash \o <<"*">>,
     number_of_replicas |-> 0, alias |-> alias_name]

\* A bootstrap that writes its template whatever it finds: the overwrite the
\* create-once rule excludes.
BootstrapOverwriting(tpl, f1, f2) ==
    LET g == EsGetIndexTemplate(tpl, f1) IN
    IF g \in {"ok", "not_found"}
    THEN [template |-> BootstrapTemplate, err |-> "none",
          reqs |-> <<Req("get_index_template", g, f1),
                    Req("put_index_template", "ok", f2)>>]
    ELSE [template |-> tpl, err |-> g, reqs |-> <<Req("get_index_template", g, f1)>>]

\* bootstrap(): err is the exception that leaves the call, "none" for a return.
bootstrap(tpl, f1, f2) ==
    LET g == EsGetIndexTemplate(tpl, f1)
        p == EsPutIndexTemplate(tpl, BootstrapTemplate, f2)
    IN IF g = "ok"
       THEN [template |-> tpl, err |-> "none", reqs |-> <<Req("get_index_template", g, f1)>>]
       ELSE IF g = "not_found"
       THEN [template |-> p.template,
             err |-> IF p.status = "ok" THEN "none" ELSE p.status,
             reqs |-> <<Req("get_index_template", g, f1),
                       Req("put_index_template", p.status, f2)>>]
       ELSE [template |-> tpl, err |-> g, reqs |-> <<Req("get_index_template", g, f1)>>]

\* _get_write_index()
_get_write_index(c, clock) == FormatDate(c.index, StrfDate(clock))

\* _get_read_index(id): the owning index or NoIndex for None; err is an
\* exception of the direct get that neither except clause catches.
_get_read_index(ix, id, f1, f2) ==
    LET g == EsGet(ix, alias_name, id, f1)
        s == EsSearch(ix, id, f2)
    IN IF g.status = "ok"
       THEN [index |-> g.index, err |-> "none", reqs |-> <<Req("get", g.status, f1)>>]
       ELSE IF g.status = "not_found"
       THEN [index |-> NoIndex, err |-> "none", reqs |-> <<Req("get", g.status, f1)>>]
       ELSE IF g.status = "request"
       THEN [index |-> IF s.status = "ok" /\ s.total = 1 THEN s.index ELSE NoIndex,
             err |-> "none",
             reqs |-> <<Req("get", g.status, f1), Req("search", s.status, f2)>>]
       ELSE [index |-> NoIndex, err |-> g.status, reqs |-> <<Req("get", g.status, f1)>>]

\* A fetch without the except clause for NotFoundError: a document or an
\* index that is gone by the time of the fetch leaves the call as the
\* store's exception.
FetchRaising(ix, index, id, reqs, f) ==
    LET g == EsGet(ix, index, id, f)
        d == _decompress(g.data)
        fetched == Append(reqs, Req("get", g.status, f))
    IN IF g.status = "ok" /\ d.ok
       THEN [absent |-> FALSE, value |-> d.data, err |-> "none", reqs |-> fetched]
       ELSE [absent |-> TRUE, value |-> <<>>,
             err |-> IF g.status = "not_found" THEN "not_found" ELSE "none",
             reqs |-> fetched]

\* The fetch of _get_bytes from the index locate returned: the try block
\* around es.get and _decompress, whose except clauses all return None.
FetchData(ix, index, id, reqs, f) ==
    LET g == EsGet(ix, index, id, f)
        d == _decompress(g.data)
        fetched == Append(reqs, Req("get", g.status, f))
    IN IF g.status = "ok" /\ d.ok
       THEN [absent |-> FALSE, value |-> d.data, err |-> "none", reqs |-> fetched]
       ELSE [absent |-> TRUE, value |-> <<>>, err |-> "none", reqs |-> fetched]

\* _get_bytes(id): absent for None, else value holds the bytes returned.
_get_bytes(ix, id, f1, f2, f3) ==
    LET loc == _get_read_index(ix, id, f1, f2) IN
    IF id = EmptyId
    THEN [absent |-> TRUE, value |-> <<>>, err |-> "none", reqs |-> <<>>]
    ELSE IF loc.err # "none"
    THEN [absent |-> TRUE, value |-> <<>>, err |-> loc.err, reqs |-> loc.reqs]
    ELSE IF loc.index = NoIndex
    THEN [absent |-> TRUE, value |-> <<>>, err |-> "none", reqs |-> loc.reqs]
    ELSE FetchData(ix, loc.index, id, loc.reqs, f3)

\* A write that logs a failed index request and returns: the swallowing the
\* error contract of the write path excludes.
SetBytesSwallowing(ix, tpl, c, clock, id, data, f) ==
    LET name == _get_write_index(c, clock)
        doc == [data |-> _compress(data), timestamp |-> ClockTime(clock)]
        w == EsIndex(ix, tpl, name, id, doc, c.refresh, f)
    IN IF id = EmptyId
       THEN [indices |-> ix, err |-> "ValueError", reqs |-> <<>>, index |-> NoIndex]
       ELSE [indices |-> w.indices, err |-> "none",
             reqs |-> <<Req("index", w.status, f)>>, index |-> name]

\* _set_bytes(id, data)
_set_bytes(ix, tpl, c, clock, id, data, f) ==
    LET name == _get_write_index(c, clock)
        doc == [data |-> _compress(data), timestamp |-> ClockTime(clock)]
        w == EsIndex(ix, tpl, name, id, doc, c.refresh, f)
    IN IF id = EmptyId
       THEN [indices |-> ix, err |-> "ValueError", reqs |-> <<>>, index |-> NoIndex]
       ELSE [indices |-> w.indices,
             err |-> IF w.status = "ok" THEN "none" ELSE w.status,
             reqs |-> <<Req("index", w.status, f)>>, index |-> name]

\* A delete without the two except clauses that pass: every answer but
\* success leaves the call as an exception.
BenignOkOnly(status) == status = "ok"

\* Not-found and conflict answers are the ones delete and delete_multi pass over.
Benign(status) == status \in {"ok", "not_found", "conflict"}

\* A delete without the check of its id.
DeleteUnvalidated(ix, c, id, f1, f2, f3) ==
    LET loc == _get_read_index(ix, id, f1, f2)
        direct == EsDelete(ix, loc.index, id, c.refresh, f3)
        query == EsDeleteByQuery(ix, {id}, FALSE, f3)
    IN IF loc.err # "none"
       THEN [indices |-> ix, err |-> loc.err, reqs |-> loc.reqs, index |-> NoIndex]
       ELSE IF loc.index # NoIndex
       THEN [indices |-> direct.indices,
             err |-> IF Benign(direct.status) THEN "none" ELSE direct.status,
             reqs |-> Append(loc.reqs, Req("delete", direct.status, f3)),
             index |-> loc.index]
       ELSE [indices |-> query.indices,
             err |-> IF Benign(query.status) THEN "none" ELSE query.status,
             reqs |-> Append(loc.reqs, Req("delete_by_query", query.status, f3)),
             index |-> NoIndex]

\* delete(id)
delete(ix, c, id, f1, f2, f3) ==
    LET loc == _get_read_index(ix, id, f1, f2)
        direct == EsDelete(ix, loc.index, id, c.refresh, f3)
        query == EsDeleteByQuery(ix, {id}, FALSE, f3)
    IN IF id = EmptyId
       THEN [indices |-> ix, err |-> "ValueError", reqs |-> <<>>, index |-> NoIndex]
       ELSE IF loc.err # "none"
       THEN [indices |-> ix, err |-> loc.err, reqs |-> loc.reqs, index |-> NoIndex]
       ELSE IF loc.index # NoIndex
       THEN [indices |-> direct.indices,
             err |-> IF Benign(direct.status) THEN "none" ELSE direct.status,
             reqs |-> Append(loc.reqs, Req("delete", direct.status, f3)),
             index |-> loc.index]
       ELSE [indices |-> query.indices,
             err |-> IF Benign(query.status) THEN "none" ELSE query.status,
             reqs |-> Append(loc.reqs, Req("delete_by_query", query.status, f3)),
             index |-> NoIndex]

\* delete_multi(id_list)
delete_multi(ix, c, id_list, f) ==
    LET query == EsDeleteByQuery(ix, Range(id_list), c.refresh, f) IN
    IF id_list = <<>>
    THEN [indices |-> ix, err |-> "none", reqs |-> <<>>]
    ELSE [indices |-> query.indices,
          err |-> IF Benign(query.status) THEN "none" ELSE query.status,
          reqs |-> <<Req("delete_by_query", query.status, f)>>]

\* A sweep that also takes the index dated exactly at the cutoff.
ExpiredInclusive(names, cutoff) ==
    {n \in names : /\ INDEX_DATE_PATTERN_match(n) # <<>>
                   /\ Strptime(INDEX_DATE_PATTERN_match(n)).ok
                   /\ Strptime(INDEX_DATE_PATTERN_match(n)).time <= cutoff}

\* The indices of the alias the sweep finds older than cutoff.
Expired(names, cutoff) ==
    {n \in names : /\ INDEX_DATE_PATTERN_match(n) # <<>>
                   /\ Strptime(INDEX_DATE_PATTERN_match(n)).ok
                   /\ Strptime(INDEX_DATE_PATTERN_match(n)).time < cutoff}

\* The indices of the alias the sweep skips: no match, or no valid date.
Skipped(names) ==
    {n \in names : INDEX_DATE_PATTERN_match(n) = <<>> \/ ~Strptime(INDEX_DATE_PATTERN_match(n)).ok}

\* A sweep without the except clauses around es.indices.delete: the first
\* deletion the store fails ends the loop and leaves the call as an exception.
CleanupAborting(ix, cutoff, f, failing) ==
    LET a == EsGetAlias(ix, f)
        attempted == Expired(a.names, cutoff)
    IN IF a.status = "not_found"
       THEN [indices |-> ix, err |-> "none", attempted |-> {}, deleted |-> {},
             skipped |-> 0, checked |-> 0, reqs |-> <<Req("get_alias", a.status, f)>>]
       ELSE IF a.status # "ok"
       THEN [indices |-> ix, err |-> a.status, attempted |-> {}, deleted |-> {},
             skipped |-> 0, checked |-> 0, reqs |-> <<Req("get_alias", a.status, f)>>]
       ELSE IF failing \cap attempted # {}
       THEN [indices |-> ix, err |-> "transport",
             attempted |-> {CHOOSE n \in failing \cap attempted : TRUE},
             deleted |-> {}, skipped |-> 0, checked |-> Cardinality(a.names),
             reqs |-> <<Req("get_alias", a.status, f)>>]
       ELSE [indices |-> Drop(ix, attempted), err |-> "none",
             attempted |-> attempted, deleted |-> attempted,
             skipped |-> Cardinality(Skipped(a.names)),
             checked |-> Cardinality(a.names),
             reqs |-> <<Req("get_alias", a.status, f)>>]

\* A sweep that deletes one expired index per call and leaves the others to
\* the next call.
CleanupOneAtATime(ix, cutoff, f, failing) ==
    LET a == EsGetAlias(ix, f)
        expired == Expired(a.names, cutoff)
        attempted == IF expired = {} THEN {} ELSE {CHOOSE n \in expired : TRUE}
        deleted == attempted \ failing
    IN IF a.status = "not_found"
       THEN [indices |-> ix, err |-> "none", attempted |-> {}, deleted |-> {},
             skipped |-> 0, checked |-> 0, reqs |-> <<Req("get_alias", a.status, f)>>]
       ELSE IF a.status # "ok"
       THEN [indices |-> ix, err |-> a.status, attempted |-> {}, deleted |-> {},
             skipped |-> 0, checked |-> 0, reqs |-> <<Req("get_alias", a.status, f)>>]
       ELSE [indices |-> Drop(ix, deleted), err |-> "none",
             attempted |-> attempted, deleted |-> deleted,
             skipped |-> Cardinality(Skipped(a.names)),
             checked |-> Cardinality(a.names),
             reqs |-> <<Req("get_alias", a.status, f)>>]

\* cleanup(cutoff): failing are the indices whose deletion the store fails.
cleanup(ix, cutoff, f, failing) ==
    LET a == EsGetAlias(ix, f)
        attempted == Expired(a.names, cutoff)
        deleted == attempted \ failing
    IN IF a.status = "not_found"
       THEN [indices |-> ix, err |-> "none", attempted |-> {}, deleted |-> {},
             skipped |-> 0, checked |-> 0, reqs |-> <<Req("get_alias", a.status, f)>>]
       ELSE IF a.status # "ok"
       THEN [indices |-> ix, err |-> a.status, attempted |-> {}, deleted |-> {},
             skipped |-> 0, checked |-> 0, reqs |-> <<Req("get_alias", a.status, f)>>]
       ELSE [indices |-> Drop(ix, deleted), err |-> "none",
             attempted |-> attempted, deleted |-> deleted,
             skipped |-> Cardinality(Skipped(a.names)),
             checked |-> Cardinality(a.names),
             reqs |-> <<Req("get_alias", a.status, f)>>]

\* -------------------------------------------------------------- behaviour

Days == 1..MaxDay

\* Cutoffs handed to cleanup: midnight and noon of the clock's days and of
\* the day after them.
Cutoffs == {TimeOf(ClockYear, ClockMonth, d, h) : d \in 1..(MaxDay + 1), h \in {0, 1}}

\* The answers injected into the n requests of one call.
FaultPlans(n) ==
    {v \in [1..n -> Faults] : Cardinality({k \in 1..n : v[k] # "none"}) <= MaxFaults}

IdLists == {<<>>} \cup {<<i>> : i \in Ids} \cup {<<i, j>> : i, j \in Ids}

\* Index names an operator may put behind the alias by hand: one that does
\* not carry a date, one whose digits are not a date.
WeirdName == SentryDash \o <<"w", "e", "i", "r", "d">>
NoDateName == SentryDash \o <<"2", "0", "2", "4", "-", "1", "3", "-", "4", "5">>
ForeignNames == {WeirdName, NoDateName}

ReindexSuffix == <<"-", "r", "e", "i", "n", "d", "e", "x">>

\* The pattern an operator's own template uses for the configured index.
OperatorPattern(c) == SubSeq(c.index, 1, Len(c.index) - 1) \o <<"*">>

\* A template written by hand: its own replica count, the alias bound.
OperatorsTemplate(c) ==
    [exists |-> TRUE, index_patterns |-> OperatorPattern(c),
     number_of_replicas |-> 1, alias |-> alias_name]

\* The callers that may be inside a call at the same time.
Procs == {1, 2}

\* What a caller holds between two requests of one call: the method, the id
\* asked for, the index locate returned and the requests made so far.
Idle == [op |-> "none", id |-> EmptyId, index |-> NoIndex, reqs |-> <<>>]
NoPend == [p \in Procs |-> Idle]

\* The backend is constructed with the default index names against a
\* cluster that is fresh, or that an earlier process has bootstrapped.
Init ==
    /\ cfg \in [index : {DefaultIndex}, refresh : BOOLEAN]
    /\ now = 1
    /\ template \in {NoTemplate, BootstrapTemplate}
    /\ indices = EmptyMap
    /\ last = NoCall
    /\ calls = 0
    /\ pend = NoPend

DoBootstrap ==
    \E f \in FaultPlans(2) :
        LET r == bootstrap(template, f[1], f[2]) IN
        /\ calls < MaxCalls
        /\ template' = r.template
        /\ last' = [NoCall EXCEPT !.op = "bootstrap", !.err = r.err, !.reqs = r.reqs]
        /\ calls' = calls + 1
        /\ UNCHANGED <<pend, cfg, now, indices>>

DoSet ==
    \E id \in Ids \cup {EmptyId}, data \in Payloads, f \in Faults :
        LET r == _set_bytes(indices, template, cfg, now, id, data, f) IN
        /\ calls < MaxCalls
        /\ indices' = r.indices
        /\ last' = [NoCall EXCEPT !.op = "set", !.id = id, !.data = data,
                                  !.err = r.err, !.reqs = r.reqs, !.index = r.index]
        /\ calls' = calls + 1
        /\ UNCHANGED <<pend, cfg, now, template>>

DoGet ==
    \E id \in Ids \cup {EmptyId}, f \in FaultPlans(3) :
        LET r == _get_bytes(indices, id, f[1], f[2], f[3]) IN
        /\ calls < MaxCalls
        /\ last' = [NoCall EXCEPT !.op = "get", !.id = id, !.absent = r.absent,
                                  !.value = r.value, !.err = r.err, !.reqs = r.reqs]
        /\ calls' = calls + 1
        /\ UNCHANGED <<pend, cfg, now, template, indices>>

DoDelete ==
    \E id \in Ids \cup {EmptyId}, f \in FaultPlans(3) :
        LET r == delete(indices, cfg, id, f[1], f[2], f[3]) IN
        /\ calls < MaxCalls
        /\ indices' = r.indices
        /\ last' = [NoCall EXCEPT !.op = "delete", !.id = id, !.err = r.err,
                                  !.reqs = r.reqs, !.index = r.index]
        /\ calls' = calls + 1
        /\ UNCHANGED <<pend, cfg, now, template>>

DoDeleteMulti ==
    \E id_list \in IdLists, f \in Faults :
        LET r == delete_multi(indices, cfg, id_list, f) IN
        /\ calls < MaxCalls
        /\ indices' = r.indices
        /\ last' = [NoCall EXCEPT !.op = "delete_multi", !.id_list = id_list,
                                  !.err = r.err, !.reqs = r.reqs]
        /\ calls' = calls + 1
        /\ UNCHANGED <<pend, cfg, now, template>>

DoCleanup ==
    \E cutoff \in Cutoffs, f \in Faults :
        \E failing \in SUBSET Expired(AliasMembers(indices), cutoff) :
            LET r == cleanup(indices, cutoff, f, failing) IN
            /\ calls < MaxCalls
            /\ indices' = r.indices
            /\ last' = [NoCall EXCEPT !.op = "cleanup", !.cutoff = cutoff,
                                      !.err = r.err, !.reqs = r.reqs,
                                      !.attempted = r.attempted, !.deleted = r.deleted,
                                      !.skipped = r.skipped, !.checked = r.checked]
            /\ calls' = calls + 1
            /\ UNCHANGED <<pend, cfg, now, template>>

\* cleanup(cutoff) cut off inside its loop (the process is killed): the
\* indices in done are deleted by then, the other expired ones are not.
DoCleanupKilled ==
    \E cutoff \in Cutoffs :
        \E done \in SUBSET Expired(AliasMembers(indices), cutoff) :
            LET r == cleanup(indices, cutoff, "none",
                             Expired(AliasMembers(indices), cutoff) \ done)
            IN /\ calls < MaxCalls
               /\ AliasMembers(indices) # {}
               /\ indices' = r.indices
               /\ last' = [NoCall EXCEPT !.op = "cleanup_killed", !.cutoff = cutoff,
                                         !.err = "killed", !.reqs = r.reqs,
                                         !.deleted = r.deleted]
               /\ calls' = calls + 1
               /\ UNCHANGED <<pend, cfg, now, template>>

\* A day passes.
Tick ==
    /\ now < MaxDay
    /\ now' = now + 1
    /\ last' = [NoCall EXCEPT !.op = "idle"]
    /\ UNCHANGED <<pend, cfg, template, indices, calls>>

\* The periodic refresh of an index makes what it holds searchable.
Refresh ==
    \E n \in DOMAIN indices :
        /\ Refreshed(indices[n]) # indices[n]
        /\ indices' = [indices EXCEPT ![n] = Refreshed(indices[n])]
        /\ last' = [NoCall EXCEPT !.op = "idle"]
        /\ UNCHANGED <<pend, cfg, now, template, calls>>

\* An operator writes the template by hand: created before the backend's
\* first start or changed after it, for the configured index names.
OperatorTemplate ==
    /\ calls < MaxCalls
    /\ calls' = calls + 1
    /\ template # OperatorsTemplate(cfg)
    /\ template' = OperatorsTemplate(cfg)
    /\ last' = [NoCall EXCEPT !.op = "operator"]
    /\ UNCHANGED <<pend, cfg, now, indices>>

\* An operator reindexes a partition into a suffixed copy and drops the
\* original.
OperatorReindex ==
    \E d \in Days :
        LET n == _get_write_index(cfg, d)
            copy == n \o ReindexSuffix
        IN /\ calls < MaxCalls
           /\ calls' = calls + 1
           /\ n \in DOMAIN indices
           /\ copy \notin DOMAIN indices
           /\ indices' = Put(Drop(indices, {n}), copy,
                             Refreshed([indices[n] EXCEPT !.seen = EmptyMap]))
           /\ last' = [NoCall EXCEPT !.op = "operator"]
           /\ UNCHANGED <<pend, cfg, now, template>>

\* An operator puts an index of another name behind the alias.
OperatorIndex ==
    \E n \in ForeignNames :
        /\ calls < MaxCalls
        /\ calls' = calls + 1
        /\ n \notin DOMAIN indices
        /\ indices' = Put(indices, n, [docs |-> EmptyMap, seen |-> EmptyMap,
                                       aliased |-> TRUE])
        /\ last' = [NoCall EXCEPT !.op = "operator"]
        /\ UNCHANGED <<pend, cfg, now, template>>

\* The calls of the backend, the clock and the store's refresh.
Next ==
    \/ DoBootstrap
    \/ DoSet
    \/ DoGet
    \/ DoDelete
    \/ DoDeleteMulti
    \/ DoCleanup
    \/ Tick
    \/ Refresh

Spec == Init /\ [][Next]_vars

\* Writes and retention sweeps on a cluster an operator also works on.
SweepNext ==
    \/ DoBootstrap
    \/ DoSet
    \/ DoCleanup
    \/ DoCleanupKilled
    \/ Tick
    \/ OperatorTemplate
    \/ OperatorReindex
    \/ OperatorIndex

\* The same for either index option, on a cluster that may also hold a
\* template written by hand before the backend's first start; writes are
\* left to the periodic refresh.
SweepInit ==
    /\ cfg \in [index : IndexOptions, refresh : {FALSE}]
    /\ now = 1
    /\ template \in {NoTemplate, BootstrapTemplate, OperatorsTemplate(cfg)}
    /\ indices = EmptyMap
    /\ last = NoCall
    /\ calls = 0
    /\ pend = NoPend

SweepSpec == SweepInit /\ [][SweepNext]_vars

\* Payload text another writer may leave in a document: base64 of bytes that
\* are no zlib stream, and a stored payload cut short.
ForeignPayloads == {<<"A", "A", "A", "A">>, SubSeq(_compress(<<>>), 1, 8)}

\* Another writer, or a fault of the store, leaves a payload the backend did
\* not encode in a document of an existing index.
ForeignWrite ==
    \E n \in DOMAIN indices, id \in Ids, text \in ForeignPayloads :
        LET doc == [data |-> text, timestamp |-> ClockTime(now)] IN
        /\ calls < MaxCalls
        /\ calls' = calls + 1
        /\ indices' = EsIndex(indices, template, n, id, doc, TRUE, "none").indices
        /\ last' = [NoCall EXCEPT !.op = "operator"]
        /\ UNCHANGED <<pend, cfg, now, template>>

\* bootstrap() up to the answer of get_index_template: the call returns or
\* raises on any answer but not-found, and goes on to create the template
\* on not-found.
BootstrapCheck(p) ==
    \E f \in Faults :
        LET g == EsGetIndexTemplate(template, f)
            r == bootstrap(template, f, "none")
        IN /\ calls < MaxCalls
           /\ pend[p].op = "none"
           /\ calls' = calls + 1
           /\ IF g = "not_found"
              THEN /\ pend' = [pend EXCEPT ![p] =
                         [Idle EXCEPT !.op = "bootstrap",
                                      !.reqs = <<Req("get_index_template", g, f)>>]]
                   /\ last' = [NoCall EXCEPT !.op = "idle"]
              ELSE /\ pend' = pend
                   /\ last' = [NoCall EXCEPT !.op = "bootstrap", !.err = r.err,
                                             !.reqs = r.reqs]
           /\ UNCHANGED <<cfg, now, template, indices>>

\* bootstrap() from put_index_template(create=True) on: a RequestError is
\* logged and raised again, any other exception leaves the call as it is.
BootstrapCreate(p) ==
    \E f \in Faults :
        LET w == EsPutIndexTemplate(template, BootstrapTemplate, f) IN
        /\ pend[p].op = "bootstrap"
        /\ template' = w.template
        /\ last' = [NoCall EXCEPT !.op = "bootstrap",
                                  !.err = IF w.status = "ok" THEN "none" ELSE w.status,
                                  !.reqs = Append(pend[p].reqs,
                                                  Req("put_index_template", w.status, f))]
        /\ pend' = [pend EXCEPT ![p] = Idle]
        /\ UNCHANGED <<cfg, now, indices, calls>>

\* _get_bytes(id) up to the answer of _get_read_index: the call returns None
\* or raises when locate found no index, and goes on to the fetch otherwise.
GetLocate(p) ==
    \E id \in Ids, f \in FaultPlans(2) :
        LET loc == _get_read_index(indices, id, f[1], f[2])
            r == _get_bytes(indices, id, f[1], f[2], "none")
        IN /\ calls < MaxCalls
           /\ pend[p].op = "none"
           /\ calls' = calls + 1
           /\ IF loc.err = "none" /\ loc.index # NoIndex
              THEN /\ pend' = [pend EXCEPT ![p] =
                         [Idle EXCEPT !.op = "get", !.id = id, !.index = loc.index,
                                      !.reqs = loc.reqs]]
                   /\ last' = [NoCall EXCEPT !.op = "idle"]
              ELSE /\ pend' = pend
                   /\ last' = [NoCall EXCEPT !.op = "get", !.id = id,
                                             !.absent = r.absent, !.value = r.value,
                                             !.err = r.err, !.reqs = r.reqs]
           /\ UNCHANGED <<cfg, now, template, indices>>

\* _get_bytes(id) from the fetch on, against the store as it is by then.
GetFetch(p) ==
    \E f \in Faults :
        LET r == FetchData(indices, pend[p].index, pend[p].id, pend[p].reqs, f) IN
        /\ pend[p].op = "get"
        /\ last' = [NoCall EXCEPT !.op = "get", !.id = pend[p].id,
                                  !.index = pend[p].index, !.absent = r.absent,
                                  !.value = r.value, !.err = r.err, !.reqs = r.reqs]
        /\ pend' = [pend EXCEPT ![p] = Idle]
        /\ UNCHANGED <<cfg, now, template, indices, calls>>

\* Callers inside bootstrap and get at the same time as writes, deletes,
\* sweeps and a foreign writer.
RaceNext ==
    \/ \E p \in Procs : BootstrapCheck(p)
    \/ \E p \in Procs : BootstrapCreate(p)
    \/ \E p \in Procs : GetLocate(p)
    \/ \E p \in Procs : GetFetch(p)
    \/ DoSet
    \/ DoDelete
    \/ DoCleanup
    \/ ForeignWrite

RaceSpec == Init /\ [][RaceNext]_vars

\* Byte strings for the payload encoding: the ends of the byte range, the
\* last literal with an 8-bit code and the first with a 9-bit code, the
\* first byte that is no ASCII, a line feed and a letter.
CodecBytes == {0, 10, 65, 128, 143, 144, 255}
CodecInputs == UNION {[1..n -> CodecBytes] : n \in 0..MaxCodecLen}

\* A byte string is about to be stored.
CodecInit ==
    /\ cfg \in [index : {DefaultIndex}, refresh : {FALSE}]
    /\ now = 1
    /\ template = NoTemplate
    /\ indices = EmptyMap
    /\ last \in {[NoCall EXCEPT !.op = "input", !.data = b] : b \in CodecInputs}
    /\ calls = 0
    /\ pend = NoPend

\* _compress(data): value is the text that goes into the document.
DoCompress ==
    /\ last.op = "input"
    /\ last' = [last EXCEPT !.op = "compress", !.value = _compress(last.data)]
    /\ UNCHANGED <<pend, cfg, now, template, indices, calls>>

\* _decompress(text) of the text just made: value is the bytes it returns.
DoDecompress ==
    LET d == _decompress(last.value) IN
    /\ last.op = "compress"
    /\ last' = [last EXCEPT !.op = "decompress", !.value = d.data,
                            !.err = IF d.ok THEN "none" ELSE "ValueError"]
    /\ UNCHANGED <<pend, cfg, now, template, indices, calls>>

CodecNext ==
    \/ DoCompress
    \/ DoDecompress

CodecSpec == CodecInit /\ [][CodecNext]_vars

\* ----------------------------------------------------------------- claims

\* No request of the call was answered by an injected failure.
NoFault(reqs) == \A k \in 1..Len(reqs) : reqs[k].fault = "none"

\* Every index of the cluster is behind the alias, as on a bootstrapped
\* cluster with the default index names.
AllAliased == \A n \in DOMAIN indices : indices[n].aliased

\* C1: from every reachable store state, a successful set(id, data) followed
\* directly by get(id) returns exactly data. Stated for the most favourable
\* setup: every index behind the alias, writes refreshed at once, and the
\* store answering every request of the get.
C1_SetThenGetReturnsData ==
    (last.op = "set" /\ last.err = "none" /\ AllAliased /\ cfg.refresh) =>
        LET r == _get_bytes(indices, last.id, "none", "none", "none") IN
        ~r.absent /\ r.value = last.data /\ r.err = "none"

\* C2: after delete(id) returns without raising, no index behind the alias
\* holds a document with that id. Stated for calls in which the store
\* answered every request.
C2_DeleteLeavesNoDocument ==
    (last.op = "delete" /\ last.id # EmptyId /\ last.err = "none" /\ NoFault(last.reqs)) =>
        \A n \in AliasMembers(indices) : last.id \notin DOMAIN indices[n].docs

\* C3: in every reachable state each id is held by at most one index.
C3_OneHolderPerId == \A id \in Ids : Cardinality(Holders(indices, id)) <= 1

\* C4: after a successful set(id, data), _get_read_index(id) returns the
\* index named for the current UTC date, the one set wrote into. Stated for
\* the setup of C1.
C4_LocateAfterSet ==
    (last.op = "set" /\ last.err = "none" /\ AllAliased /\ cfg.refresh) =>
        LET loc == _get_read_index(indices, last.id, "none", "none") IN
        loc.err = "none" /\ loc.index = _get_write_index(cfg, now)

\* The step is a call of the backend's method op.
Called(op) == calls' = calls + 1 /\ last'.op = op

\* The answer of the last request of a call.
LastStatus(reqs) == IF reqs = <<>> THEN "none" ELSE reqs[Len(reqs)].status

\* C5: delete is idempotent. Whenever the store answers every request of a
\* delete(id) by its state: the call does not raise, also when its last
\* request is answered not-found or conflict; when no index behind the alias
\* holds id the store is left unchanged; and when the call directly follows
\* a delete of the same id that returned normally, it changes nothing.
C5_DeleteIdempotent ==
    [][(Called("delete") /\ last'.id # EmptyId /\ NoFault(last'.reqs)) =>
           /\ last'.err = "none"
           /\ (Holders(indices, last'.id) \cap AliasMembers(indices) = {})
                  => indices' = indices
           /\ (last.op = "delete" /\ last.id = last'.id /\ last.err = "none"
               /\ NoFault(last.reqs)) => indices' = indices]_vars

\* A second delete of an id just deleted: its delete_by_query meets the copy
\* the first delete left to the next refresh, is answered conflict, and the
\* call returns normally with the id held nowhere.
C5_SecondDeleteConflict ==
    /\ last.op = "delete" /\ last.err = "none" /\ NoFault(last.reqs)
    /\ LastStatus(last.reqs) = "conflict"
    /\ Holders(indices, last.id) = {}

\* The characters of a name from position from on, width of them.
Field(name, from, width) ==
    IF Len(name) >= from + width - 1 THEN SubSeq(name, from, from + width - 1) ELSE <<>>

\* The calendar dates a name carries as sentry-YYYY-MM-DD at its start.
NameDates(name) ==
    IF \/ Field(name, 1, 7) # SentryDash
       \/ Field(name, 12, 1) # <<"-">>
       \/ Field(name, 15, 1) # <<"-">>
    THEN {}
    ELSE {ymd \in {y \in (ClockYear - 1)..(ClockYear + 1) : Decimal(y, 4) = Field(name, 8, 4)}
                  \X {m \in 1..12 : Decimal(m, 2) = Field(name, 13, 2)}
                  \X {d \in 1..31 : Decimal(d, 2) = Field(name, 16, 2)} :
             ymd[3] <= DaysIn(ymd[1], ymd[2])}

\* The indices behind the alias whose name carries a date before cutoff.
DatedBefore(ix, cutoff) ==
    {n \in AliasMembers(ix) :
        \E ymd \in NameDates(n) : TimeOf(ymd[1], ymd[2], ymd[3], 0) < cutoff}

\* C6: a cleanup(cutoff) in which no index deletion fails removes exactly
\* the indices behind the alias whose name carries a parsable date strictly
\* earlier than cutoff; every other index stays as it was, and the indices
\* behind the alias whose name carries no parsable date are the ones counted
\* as skipped.
C6_CleanupDeletesExactlyOlder ==
    [][(Called("cleanup") /\ last'.err = "none" /\ LastStatus(last'.reqs) = "ok"
        /\ last'.attempted = last'.deleted) =>
           /\ DOMAIN indices' = DOMAIN indices \ DatedBefore(indices, last'.cutoff)
           /\ \A n \in DOMAIN indices' : indices'[n] = indices[n]
           /\ last'.deleted = DatedBefore(indices, last'.cutoff)
           /\ last'.skipped =
                  Cardinality({n \in AliasMembers(indices) : NameDates(n) = {}})]_vars

\* A sweep that deleted an index and skipped another whose name has no date.
C6_DeletedOneSkippedOne ==
    /\ last.op = "cleanup" /\ last.err = "none"
    /\ last.deleted # {} /\ last.attempted = last.deleted
    /\ last.skipped >= 1
    /\ \E n \in ForeignNames : n \in AliasMembers(indices)

\* C7: for the configured index prefix, a suffixed index <prefix>-YYYY-MM-DD
\* -reindex behind the alias is deleted by a cleanup whose cutoff is later
\* than that date: after a sweep in which no deletion failed, none is left.
C7_SuffixedIndexSwept ==
    (last.op = "cleanup" /\ last.err = "none" /\ LastStatus(last.reqs) = "ok"
     /\ last.attempted = last.deleted) =>
        \A d \in Days :
            (_get_write_index(cfg, d) \o ReindexSuffix) \in AliasMembers(indices)
                => ~(TimeOf(ClockYear, ClockMonth, d, 0) < last.cutoff)

\* C8: get(id) never raises because of a store failure: whatever the store
\* answers during the locate step or the fetch, the call returns.
C8_GetNeverRaises == last.op = "get" => last.err = "none"

\* The request was answered by a failure of the store.
Failed(req) == req.fault # "none"

\* C9 as stated: a set, delete or delete_multi in which any request met a
\* store failure does not return normally.
C9_EveryFailurePropagates ==
    (last.op \in {"set", "delete", "delete_multi"}
     /\ \E k \in 1..Len(last.reqs) : Failed(last.reqs[k])) => last.err # "none"

\* C9: a failure of the store at the request that writes (set's index,
\* delete's delete or delete_by_query, delete_multi's delete_by_query) and a
\* transport failure of delete's direct lookup leave the call as that
\* exception; set issues exactly one index request. A request error of the
\* direct lookup and any failure of the fallback search are absorbed by the
\* locate step: delete goes on to its deleting request and returns normally
\* unless that request fails too.
C9_WriteFailurePropagates ==
    /\ (last.op = "set" /\ last.id # EmptyId) =>
           /\ Len(last.reqs) = 1 /\ last.reqs[1].api = "index"
           /\ Failed(last.reqs[1]) => last.err = last.reqs[1].status
    /\ (last.op \in {"delete", "delete_multi"}) =>
           \A k \in 1..Len(last.reqs) :
               LET r == last.reqs[k] IN
               /\ (Failed(r) /\ r.api \in {"delete", "delete_by_query"})
                      => (k = Len(last.reqs) /\ last.err = r.status)
               /\ (Failed(r) /\ r.api = "get" /\ r.status = "transport")
                      => (k = Len(last.reqs) /\ last.err = "transport")
               /\ (Failed(r) /\ (r.api = "search" \/ (r.api = "get" /\ r.status = "request")))
                      => /\ k < Len(last.reqs)
                         /\ last.reqs[Len(last.reqs)].api \in {"delete", "delete_by_query"}
                         /\ ~Failed(last.reqs[Len(last.reqs)]) => last.err = "none"

\* A delete that located its document by the fallback search and whose
\* delete request the store failed: the failure left the call.
C9_DeleteRequestFailed ==
    /\ last.op = "delete" /\ Len(last.reqs) = 3
    /\ last.reqs[2].api = "search" /\ last.reqs[3].api = "delete"
    /\ Failed(last.reqs[3]) /\ last.err = "transport"

\* C10: bootstrap never overwrites and is idempotent. When a template of the
\* configured name exists, the call issues no template write and leaves the
\* template as it is, and it returns normally when the store answers the
\* lookup; a bootstrap directly after a bootstrap that returned normally
\* returns normally too.
C10_BootstrapNeverOverwrites ==
    [][Called("bootstrap") =>
           /\ template.exists =>
                  /\ template' = template
                  /\ \A k \in 1..Len(last'.reqs) : last'.reqs[k].api # "put_index_template"
                  /\ NoFault(last'.reqs) => last'.err = "none"
           /\ (last.op = "bootstrap" /\ last.err = "none" /\ NoFault(last'.reqs))
                  => (last'.err = "none" /\ template' = template)]_vars

\* A bootstrap that found the template an operator wrote and left it.
C10_OperatorsTemplateKept ==
    /\ last.op = "bootstrap" /\ last.err = "none" /\ Len(last.reqs) = 1
    /\ template = OperatorsTemplate(cfg)
    /\ template # BootstrapTemplate

\* C11: when two bootstrap calls run at the same time and both find the
\* template absent, neither raises: a bootstrap whose requests the store
\* answered by its state returns normally, also the one whose create found
\* the template already made by the other.
C11_ConcurrentBootstrapNeverRaises ==
    (last.op = "bootstrap" /\ NoFault(last.reqs)) => last.err = "none"

\* C12: a get(id) whose document, or the index locate found it in, is gone
\* by the time of the fetch returns absent and does not raise, whatever the
\* store answers to the fetch; and a get(id) started when no index holds id,
\* with the store answering its requests, returns absent and does not raise.
C12_GetOfRemovedIsAbsent ==
    [][/\ \A p \in Procs :
              (/\ pend[p].op = "get" /\ pend'[p].op = "none"
               /\ \/ pend[p].index \notin DOMAIN indices
                  \/ pend[p].id \notin DOMAIN indices[pend[p].index].docs)
                  => (last'.op = "get" /\ last'.absent /\ last'.err = "none")
       /\ (Called("get") /\ Holders(indices, last'.id) = {} /\ NoFault(last'.reqs))
              => (last'.absent /\ last'.err = "none")]_vars

\* A get that located its document in an index a sweep deleted before the
\* fetch, and returned absent.
C12_PartitionGoneBeforeFetch ==
    /\ last.op = "get" /\ last.index # NoIndex
    /\ last.index \notin DOMAIN indices
    /\ LastStatus(last.reqs) = "not_found"
    /\ last.absent /\ last.err = "none"

\* C13: a get that fetched a payload which does not decode or decompress
\* fails with the corrupt-data error (the ValueError of _decompress) and is
\* not reported as absent.
C13_CorruptPayloadIsAnError ==
    (/\ last.op = "get" /\ last.index \in DOMAIN indices
     /\ LastStatus(last.reqs) = "ok"
     /\ last.id \in DOMAIN indices[last.index].docs
     /\ ~_decompress(indices[last.index].docs[last.id].data).ok)
        => (last.err = "ValueError" /\ ~(last.absent /\ last.err = "none"))

\* C14: a cleanup(cutoff) that got the alias's indices never raises and never
\* stops at a deletion the store fails: every index behind the alias dated
\* strictly before cutoff gets its deletion attempt, and all of them but the
\* ones whose deletion failed are gone afterwards.
C14_FailedDeletionDoesNotAbort ==
    [][(Called("cleanup") /\ LastStatus(last'.reqs) = "ok") =>
           /\ last'.err = "none"
           /\ last'.attempted = DatedBefore(indices, last'.cutoff)
           /\ last'.deleted \subseteq last'.attempted
           /\ DOMAIN indices' = DOMAIN indices \ last'.deleted]_vars

\* A sweep in which the deletion of one index failed and another expired
\* index was deleted all the same.
C14_OneFailedOtherDeleted ==
    /\ last.op = "cleanup" /\ last.err = "none"
    /\ last.attempted \ last.deleted # {}
    /\ last.deleted # {}

\* C15: cleanup is resumable and idempotent. A complete cleanup(cutoff) run
\* after a cleanup(cutoff) that was cut off after any number of deletions
\* leaves the indices one uninterrupted cleanup(cutoff) would have left; and
\* after a complete cleanup a second complete cleanup with the same cutoff
\* deletes nothing and leaves the indices as they are.
C15_CleanupResumable ==
    [][/\ Called("cleanup_killed") =>
              cleanup(indices', last'.cutoff, "none", {}).indices
                  = cleanup(indices, last'.cutoff, "none", {}).indices
       /\ (Called("cleanup") /\ last'.err = "none"
           /\ last'.attempted = last'.deleted) =>
              /\ cleanup(indices', last'.cutoff, "none", {}).deleted = {}
              /\ cleanup(indices', last'.cutoff, "none", {}).indices = indices'
       /\ (Called("cleanup") /\ NoFault(last'.reqs) /\ last.op = "cleanup"
           /\ last.err = "none" /\ last.attempted = last.deleted
           /\ last'.cutoff = last.cutoff) =>
              (last'.attempted = {} /\ indices' = indices)]_vars

\* A sweep cut off after it deleted one expired index, with another expired
\* index still behind the alias.
C15_KilledMidLoop ==
    /\ last.op = "cleanup_killed" /\ last.deleted # {}
    /\ Expired(AliasMembers(indices), last.cutoff) # {}

\* C16: once bootstrap has created the template, an index that set creates
\* for the configured naming pattern is a member of the alias.
C16_CreatedIndexIsAliased ==
    [][(Called("set") /\ last'.err = "none" /\ template = BootstrapTemplate
        /\ last'.index \notin DOMAIN indices) =>
           last'.index \in AliasMembers(indices')]_vars

\* C20: cleanup(cutoff) deletes an index only if its whole calendar day lies
\* before cutoff, so that no document it removes was written at or after
\* cutoff.
C20_NoDocumentAfterCutoffRemoved ==
    [][Called("cleanup") =>
           \A n \in last'.deleted :
               /\ \A ymd \in NameDates(n) :
                      TimeOf(ymd[1], ymd[2], ymd[3], 0) + 2 <= last'.cutoff
               /\ \A id \in DOMAIN indices[n].docs :
                      indices[n].docs[id].timestamp < last'.cutoff]_vars

\* C17: delete_multi with an empty list issues no request; with a non-empty
\* list it issues exactly one delete_by_query; and when the store answers
\* that request by its state the call returns normally and none of the
\* listed ids is held by an index behind the alias afterwards.
C17_DeleteMultiRemovesAll ==
    last.op = "delete_multi" =>
        /\ last.id_list = <<>> => last.reqs = <<>>
        /\ last.id_list # <<>> =>
               (Len(last.reqs) = 1 /\ last.reqs[1].api = "delete_by_query")
        /\ NoFault(last.reqs) =>
               /\ last.err = "none"
               /\ \A id \in Range(last.id_list) : \A n \in AliasMembers(indices) :
                      id \notin DOMAIN indices[n].docs

\* C18: set and delete with an empty id raise the validation error without
\* a request to the store and leave the store unchanged; get with an empty id
\* returns absent without a request.
C18_EmptyIdRejected ==
    [][/\ ((Called("set") \/ Called("delete")) /\ last'.id = EmptyId) =>
              (last'.err = "ValueError" /\ last'.reqs = <<>> /\ indices' = indices)
       /\ (Called("get") /\ last'.id = EmptyId) =>
              /\ last'.absent /\ last'.err = "none"
              /\ last'.reqs = <<>> /\ indices' = indices]_vars

\* A delete with an empty id on a store that holds documents.
C18_EmptyDeleteOnFilledStore ==
    /\ last.op = "delete" /\ last.id = EmptyId /\ last.err = "ValueError"
    /\ \E n \in DOMAIN indices : indices[n].docs # EmptyMap

\* C19: the payload encoding round-trips: _decompress(_compress(b)) returns
\* b, without an error, for every byte string b, the empty one included.
C19_RoundTrip ==
    last.op = "decompress" => (last.err = "none" /\ last.value = last.data)

\* A round trip of two bytes that are no UTF-8 text.
C19_BinaryRoundTrip ==
    /\ last.op = "decompress" /\ Len(last.data) = 2
    /\ last.data[1] = 255 /\ last.data[2] = 144
    /\ last.value = last.data

\* The documents of index n but the one with the given id.
Others(ix, n, id) == [x \in (DOMAIN ix[n].docs) \ {id} |-> ix[n].docs[x]]

\* C21: the frame of the per-id operations. get(id), with the locate step in
\* it, never changes the store. set(id, data) leaves every existing index in
\* place, adds at most the index of the current UTC date, and changes no
\* document but the one with that id in that index. delete(id) leaves the set
\* of indices as it is, adds no document and changes or removes none with
\* another id.
C21_PerIdFrame ==
    [][/\ Called("get") => indices' = indices
       /\ Called("set") =>
              /\ DOMAIN indices \subseteq DOMAIN indices'
              /\ (DOMAIN indices') \ (DOMAIN indices) \subseteq {_get_write_index(cfg, now)}
              /\ \A n \in DOMAIN indices :
                     /\ indices'[n].aliased = indices[n].aliased
                     /\ Others(indices', n, last'.id) = Others(indices, n, last'.id)
                     /\ n # _get_write_index(cfg, now) => indices'[n].docs = indices[n].docs
              /\ \A n \in (DOMAIN indices') \ (DOMAIN indices) :
                     DOMAIN indices'[n].docs \subseteq {last'.id}
       /\ Called("delete") =>
              /\ DOMAIN indices' = DOMAIN indices
              /\ \A n \in DOMAIN indices :
                     /\ indices'[n].aliased = indices[n].aliased
                     /\ Others(indices', n, last'.id) = Others(indices, n, last'.id)
                     /\ DOMAIN indices'[n].docs \subseteq DOMAIN indices[n].docs]_vars

\* A delete that removed its document from an index in which the document
\* of another id stayed.
C21_DeletedBesideAnother ==
    /\ last.op = "delete" /\ last.err = "none" /\ last.index \in DOMAIN indices
    /\ LastStatus(last.reqs) = "ok"
    /\ last.id \notin DOMAIN indices[last.index].docs
    /\ indices[last.index].docs # EmptyMap

====
